---- MODULE Spec2Model ----
(***************************************************************************)
(* Diagram preprocessing pipeline of MdToDocxConverter (converter.ts):     *)
(* extractMermaidBlocks, renderMermaidToPng (cache + mmdc subprocess),     *)
(* preprocessMermaid (in-place rewrite with a running offset) and cleanup. *)
(* Texts are sequences of one-character strings; offsets are 0-based and   *)
(* half-open as in JavaScript.                                             *)
(***************************************************************************)
EXTENDS Integers, Sequences, FiniteSets, TLC

\* ------------------------------------------------------------------ bounds
\* Largest number of pieces an input document is assembled from.
MaxPieces == 3
\* --------------------------------------------------------------- literals
\* The grave accent character (U+0060), which a TLA+ string cannot hold.
Tick == "GRAVE"

\* The opening fence (three grave accents, "mermaid", a line feed): the head of
\* the scanner's regular expression.
OpenFence == <<Tick, Tick, Tick, "m", "e", "r", "m", "a", "i", "d", "\n">>

\* The closing fence (three grave accents): the tail of the regular expression.
CloseFence == <<Tick, Tick, Tick>>

\* "\n\n![Mermaid Diagram](data:image/png;base64," : imgMarkdown up to the payload.
ImgPrefix == <<"\n", "\n", "!", "[", "M", "e", "r", "m", "a", "i", "d", " ", "D", "i", "a", "g", "r", "a", "m", "]", "(", "d", "a", "t", "a", ":", "i", "m", "a", "g", "e", "/", "p", "n", "g", ";", "b", "a", "s", "e", "6", "4", ",">>

\* ")\n\n" : imgMarkdown after the payload.
ImgSuffix == <<")", "\n", "\n">>

\* The base64 alphabet of Buffer.toString("base64").
B64Alphabet == <<"A", "B", "C", "D", "E", "F", "G", "H", "I", "J", "K", "L", "M", "N", "O", "P", "Q", "R", "S", "T", "U", "V", "W", "X", "Y", "Z", "a", "b", "c", "d", "e", "f", "g", "h", "i", "j", "k", "l", "m", "n", "o", "p", "q", "r", "s", "t", "u", "v", "w", "x", "y", "z", "0", "1", "2", "3", "4", "5", "6", "7", "8", "9", "+", "/">>

\* Characters that occur in the documents of the model.
Alphabet == <<"\n", " ", "A", "B", Tick, "a", "d", "e", "i", "m", "r", "x",
              "<", ">", "/", "=", "\"", "-", ":", ";", "b", "f", "g", "k", "l",
              "n", "p", "s", "t", "v", "w", "y", "z">>

\* The position of a character in Alphabet (its code).
CharCode(c) == CHOOSE k \in 1..Len(Alphabet) : Alphabet[k] = c

\* ---------------------------------------------------------- string helpers
\* An index clamped to 0..Len(s), as String.prototype.substring clamps it.
Clamp(s, k) == IF k < 0 THEN 0 ELSE IF k > Len(s) THEN Len(s) ELSE k

\* String.prototype.substring(from, to) on 0-based half-open offsets: both
\* indices are clamped and swapped when from > to.
Substring(s, from, to) ==
    LET a == Clamp(s, from)
        b == Clamp(s, to)
    IN IF a <= b THEN SubSeq(s, a + 1, b) ELSE SubSeq(s, b + 1, a)

\* Whether literal lit occurs in s at 0-based offset k.
MatchesAt(s, k, lit) ==
    /\ k >= 0
    /\ k + Len(lit) <= Len(s)
    /\ Substring(s, k, k + Len(lit)) = lit

\* String.prototype.indexOf(lit, from): least offset >= from, or -1.
IndexOf(s, lit, from) ==
    LET hits == {k \in from..(Len(s) - Len(lit)) : MatchesAt(s, k, lit)}
    IN IF hits = {} THEN -1 ELSE CHOOSE k \in hits : \A j \in hits : k <= j

\* Whether c is white space for String.prototype.trim.
IsSpace(c) == c \in {" ", "\n", "\t", "\r"}

\* String.prototype.trim.
Trim(s) ==
    LET keep == {k \in 1..Len(s) : ~IsSpace(s[k])}
    IN IF keep = {} THEN <<>>
       ELSE LET lo == CHOOSE k \in keep : \A j \in keep : k <= j
                hi == CHOOSE k \in keep : \A j \in keep : k >= j
            IN SubSeq(s, lo, hi)

\* c repeated n times.
Repeat(c, n) == [k \in 1..n |-> c]

\* ------------------------------------------------------------------ scanner
\* No match of the regular expression.
NoMatch == [index |-> -1, body |-> <<>>, length |-> 0]

\* A mutant of RegexExec: the body is matched greedily, up to the last closing
\* fence of the text.
RegexExecGreedy(s, lastIndex) ==
    LET lastClose(k) ==
            LET cs == {c \in (k + Len(OpenFence))..(Len(s) - Len(CloseFence)) :
                          MatchesAt(s, c, CloseFence)}
            IN IF cs = {} THEN -1 ELSE CHOOSE c \in cs : \A j \in cs : c >= j
        starts == {k \in lastIndex..Len(s) :
                      /\ MatchesAt(s, k, OpenFence)
                      /\ lastClose(k) # -1}
    IN IF starts = {} THEN NoMatch
       ELSE LET k == CHOOSE x \in starts : \A y \in starts : x <= y
                c == lastClose(k)
            IN [index |-> k,
                body |-> Substring(s, k + Len(OpenFence), c),
                length |-> c + Len(CloseFence) - k]

\* A mutant of RegexExec: an opening fence with no closing fence after it
\* matches up to the end of the text.
RegexExecUnclosed(s, lastIndex) ==
    LET starts == {k \in lastIndex..Len(s) : MatchesAt(s, k, OpenFence)}
    IN IF starts = {} THEN NoMatch
       ELSE LET k == CHOOSE x \in starts : \A y \in starts : x <= y
                c == IndexOf(s, CloseFence, k + Len(OpenFence))
            IN IF c = -1
               THEN [index |-> k,
                     body |-> Substring(s, k + Len(OpenFence), Len(s)),
                     length |-> Len(s) - k]
               ELSE [index |-> k,
                     body |-> Substring(s, k + Len(OpenFence), c),
                     length |-> c + Len(CloseFence) - k]

\* A mutant of RegexExec: any fence opens a block, whatever its language tag.
RegexExecAnyFence(s, lastIndex) ==
    LET starts == {k \in lastIndex..Len(s) :
                      /\ MatchesAt(s, k, CloseFence)
                      /\ IndexOf(s, CloseFence, k + Len(CloseFence)) # -1}
    IN IF starts = {} THEN NoMatch
       ELSE LET k == CHOOSE x \in starts : \A y \in starts : x <= y
                c == IndexOf(s, CloseFence, k + Len(CloseFence))
            IN [index |-> k,
                body |-> Substring(s, k + Len(CloseFence), c),
                length |-> c + Len(CloseFence) - k]

\* regex.exec(markdown) with regex.lastIndex = lastIndex: the leftmost offset
\* >= lastIndex at which the opening fence occurs and a closing fence follows
\* it; the lazy body ends at the first such closing fence.
RegexExec(s, lastIndex) ==
    LET starts == {k \in lastIndex..Len(s) :
                      /\ MatchesAt(s, k, OpenFence)
                      /\ IndexOf(s, CloseFence, k + Len(OpenFence)) # -1}
    IN IF starts = {} THEN NoMatch
       ELSE LET k == CHOOSE x \in starts : \A y \in starts : x <= y
                c == IndexOf(s, CloseFence, k + Len(OpenFence))
            IN [index |-> k,
                body |-> Substring(s, k + Len(OpenFence), c),
                length |-> c + Len(CloseFence) - k]

\* A mutant of MakeBlock: the body is stored as matched, not trimmed.
MakeBlockUntrimmed(match) ==
    [code |-> match.body,
     startIndex |-> match.index,
     endIndex |-> match.index + match.length]

\* The MermaidBlock pushed for one match.
MakeBlock(match) ==
    [code |-> Trim(match.body),
     startIndex |-> match.index,
     endIndex |-> match.index + match.length]

\* The while loop of extractMermaidBlocks, from regex.lastIndex = lastIndex.
RECURSIVE ScanFrom(_, _)
ScanFrom(s, lastIndex) ==
    LET match == RegexExec(s, lastIndex)
    IN IF match.index = -1 THEN <<>>
       ELSE <<MakeBlock(match)>> \o ScanFrom(s, match.index + match.length)

\* extractMermaidBlocks(markdown).
ExtractMermaidBlocks(markdown) == ScanFrom(markdown, 0)

\* ------------------------------------------------------- image reference
\* Buffer.toString("base64"): three bytes to four characters, padded with "=".
RECURSIVE Base64(_)
Base64(b) ==
    LET ch(v) == B64Alphabet[v + 1]
    IN IF Len(b) = 0 THEN <<>>
       ELSE IF Len(b) = 1
       THEN <<ch(b[1] \div 4), ch((b[1] % 4) * 16), "=", "=">>
       ELSE IF Len(b) = 2
       THEN <<ch(b[1] \div 4), ch((b[1] % 4) * 16 + b[2] \div 16),
              ch((b[2] % 16) * 4), "=">>
       ELSE <<ch(b[1] \div 4), ch((b[1] % 4) * 16 + b[2] \div 16),
              ch((b[2] % 16) * 4 + b[3] \div 64), ch(b[3] % 64)>>
            \o Base64(SubSeq(b, 4, Len(b)))

\* imgMarkdown for the bytes read from the png file.
ImgMarkdown(pngBuffer) == ImgPrefix \o Base64(pngBuffer) \o ImgSuffix

\* ------------------------------------------------------------ render cache
\* The md5 hex digest of the diagram source, modelled as a collision-free
\* digest: the sequence of the character codes of the source.
Md5(mermaidCode) == [k \in 1..Len(mermaidCode) |-> CharCode(mermaidCode[k])]

\* path.join(tempDir, hash + ".mmd").
InputFile(mermaidCode) == <<"md-docx-mermaid", Md5(mermaidCode), "mmd">>

\* path.join(tempDir, hash + ".png").
OutputFile(mermaidCode) == <<"md-docx-mermaid", Md5(mermaidCode), "png">>

\* The image the external renderer writes for a diagram source: a fixed
\* function of the source (same source, same bytes), three header bytes and
\* the codes of the first two characters of the source.
PngBytes(mermaidCode) ==
    <<137, 80, 78>> \o Md5(Substring(mermaidCode, 0, 2))

\* ------------------------------------------------------------ input texts
\* A short diagram block: positive length drift when replaced.
BlockA == OpenFence \o <<"A", "\n">> \o CloseFence

\* A long diagram block: negative length drift when replaced.
BlockB == OpenFence \o Repeat("B", 46) \o CloseFence

\* The pieces input documents are assembled from.
Pieces == {OpenFence, CloseFence, BlockA, BlockB, <<"x">>, <<Tick>>, <<" ">>}

\* The documents assembled from exactly n pieces.
RECURSIVE TextsOfLen(_)
TextsOfLen(n) ==
    IF n = 0 THEN {<<>>}
    ELSE {t \o pc0 : t \in TextsOfLen(n - 1), pc0 \in Pieces}

\* The documents assembled from at most MaxPieces pieces.
Texts == UNION {TextsOfLen(n) : n \in 0..MaxPieces}

\* The source of BlockA with other white space around it.
BlockA2 == OpenFence \o <<" ", "A">> \o CloseFence

\* The documents of the concurrent specification: the same diagram source
\* twice in a document, at other positions and with other white space in
\* another document, and another source.
CacheTexts == {BlockA2, BlockA \o <<"x">> \o BlockA2, BlockB}

\* The callers: preprocessMermaid calls that share the scratch directory.
Procs == {1, 2}

\* ------------------------------------------------------------------- state
VARIABLES
    markdown,     \* [Procs -> text]: the argument of each preprocessMermaid call
    pc,           \* [Procs -> position of the call]
    blocks,       \* [Procs -> the scanned MermaidBlock sequence]
    bi,           \* [Procs -> index of the block the for loop is at]
    result,       \* [Procs -> the text being rewritten]
    offset,       \* [Procs -> the running offset]
    repl,         \* [Procs -> per processed block: replaced or not, and by what]
    call,         \* [Procs -> the current (or last) renderMermaidToPng call]
    child,        \* [Procs -> the renderer subprocess of the current call]
    files,        \* the scratch directory: file name -> content
    returnedKeys, \* sources for which a path was returned since the last cleanup
    touched,      \* raw block bodies with the file names computed for them
    spawns,       \* <<caller, diagram source>> -> number of renderer subprocesses spawned
    exitedOk,     \* sources for which a renderer exited with code 0 after writing the image
    missedKeys,   \* sources for which a call missed and spawned the renderer since the last cleanup
    hl,           \* highlighterInstance and the getHighlighter calls
    cmpA,         \* first argument of the naturalSort call
    cmpB,         \* second argument of the naturalSort call
    cmpOut,       \* sign of the value the naturalSort call returned
    cmpPc,        \* position of the naturalSort call
    args,         \* the entry point called and its arguments
    disk,         \* the input directory and the destination
    conv          \* the locals and the position of the entry point called

\* The state of the preprocessing pipeline and of the scratch directory.
preVars == <<markdown, pc, blocks, bi, result, offset, repl, call, child, files,
             returnedKeys, touched, spawns, exitedOk, missedKeys>>

\* The state outside the preprocessing pipeline.
outerVars == <<cmpA, cmpB, cmpOut, cmpPc, args, disk, conv, hl>>

vars == <<preVars, outerVars>>

\* No naturalSort call is made.
CmpOff ==
    /\ cmpA = <<>>
    /\ cmpB = <<>>
    /\ cmpOut = 0
    /\ cmpPc = "off"

\* No result of the conversion engine yet.
NoOutput == [type |-> "none", of |-> <<>>]

\* No error thrown.
NoError == [text |-> "", path |-> <<>>, phase |-> "none"]

\* The destination: whether dirname(outputPath) exists, whether outputPath
\* exists, and its content.
NoDest == [dir |-> FALSE, file |-> FALSE, content |-> NoOutput]

\* highlighterInstance is null and no getHighlighter call is pending: the
\* instance (0 for null, else the number of the highlighter), the position of
\* the getHighlighter call of each convert call, the number of highlighters
\* created, those created and not disposed, the number created since the last
\* disposeHighlighter call, and whether a creation was started since then.
NoHighlighter ==
    [instance |-> 0, st |-> [p \in Procs |-> "none"], made |-> 0, live |-> {},
     sinceDispose |-> 0, started |-> FALSE]

\* getHighlighter() up to its await, in the convert call of caller p: a
\* creation is started when highlighterInstance is null, else the instance is
\* returned.
HlGet(h, p) ==
    IF h.instance = 0
    THEN [h EXCEPT !.st[p] = "creating", !.started = TRUE]
    ELSE [h EXCEPT !.st[p] = "loaded"]

\* getHighlighter() after its await: the highlighter created for caller p is
\* assigned to highlighterInstance and returned.
HlCreated(h, p) ==
    [h EXCEPT !.instance = h.made + 1,
              !.st[p] = "loaded",
              !.made = h.made + 1,
              !.live = h.live \cup {h.made + 1},
              !.sinceDispose = h.sinceDispose + 1]

\* disposeHighlighter(): the instance, if there is one, is disposed and
\* highlighterInstance set to null.
HlDispose(h) ==
    [h EXCEPT !.instance = 0,
              !.live = h.live \ {h.instance},
              !.sinceDispose = 0,
              !.started = FALSE]

\* No entry point is called.
ConvOff ==
    /\ args = [entry |-> "off", input |-> <<>>, inputPaths |-> <<>>,
               separator |-> "unset", sortFn |-> "unset", enableMermaid |-> FALSE]
    /\ disk = [inKind |-> "missing", listing |-> <<>>, dest |-> NoDest]
    /\ conv = [pc |-> "off", files |-> <<>>, sep |-> <<>>, contents |-> <<>>,
               merged |-> <<>>, processed |-> <<>>, output |-> NoOutput,
               buffer |-> NoOutput, error |-> NoError, destBefore |-> NoDest,
               cli |-> "none", printed |-> <<>>]

\* No renderMermaidToPng call made yet.
NoCall ==
    [key |-> <<>>, outcome |-> "none", spawned |-> 0, afterReturn |-> FALSE,
     afterMiss |-> FALSE,
     exit |-> -1, stderr |-> <<>>, existed |-> FALSE, message |-> <<>>,
     path |-> <<>>, complete |-> FALSE]

\* No renderer subprocess.
NoChild == [st |-> "none", phase |-> "none", code |-> -1, stderr |-> <<>>]

\* fs.existsSync(name) in the scratch directory.
ExistsSync(name) == name \in DOMAIN files

\* The directory after fs.writeFileSync(name, content), or after the renderer
\* has written content to name.
WriteFile(name, content) ==
    [n \in DOMAIN files \cup {name} |-> IF n = name THEN content ELSE files[n]]

\* The state after construction, before any call; only the callers in active
\* make a call, each on a document of texts.
InitWith(active, texts) ==
    /\ markdown \in {[p \in Procs |-> IF p \in active THEN f[p] ELSE <<>>] :
                        f \in [active -> texts]}
    /\ pc = [p \in Procs |-> IF p \in active THEN "idle" ELSE "off"]
    /\ blocks = [p \in Procs |-> <<>>]
    /\ bi = [p \in Procs |-> 0]
    /\ result = [p \in Procs |-> <<>>]
    /\ offset = [p \in Procs |-> 0]
    /\ repl = [p \in Procs |-> <<>>]
    /\ call = [p \in Procs |-> NoCall]
    /\ child = [p \in Procs |-> NoChild]
    /\ files = <<>>
    /\ returnedKeys = {}
    /\ touched = {}
    /\ spawns = <<>>
    /\ exitedOk = {}
    /\ missedKeys = {}
    /\ hl = NoHighlighter

\* ------------------------------------------------------- preprocessMermaid
\* The block the for loop of caller p is at.
Block(p) == blocks[p][bi[p]]

\* The body of a block as matched, before trimming.
RawBody(p) ==
    Substring(markdown[p], Block(p).startIndex + Len(OpenFence),
              Block(p).endIndex - Len(CloseFence))

\* The loop moves to the next block, or returns result after the last one.
Advance(p) ==
    /\ bi' = [bi EXCEPT ![p] = bi[p] + 1]
    /\ pc' = [pc EXCEPT ![p] = IF bi[p] + 1 > Len(blocks[p]) THEN "done" ELSE "resolve"]

\* A mutant of Skip: the failure is not caught and the call raises.
SkipRethrow(p) ==
    /\ repl' = [repl EXCEPT ![p] = Append(repl[p], [ok |-> FALSE, img |-> <<>>])]
    /\ pc' = [pc EXCEPT ![p] = "raised"]
    /\ UNCHANGED <<bi, result, offset>>

\* The catch clause: the failure is logged, the block is left as it is.
Skip(p) ==
    /\ repl' = [repl EXCEPT ![p] = Append(repl[p], [ok |-> FALSE, img |-> <<>>])]
    /\ Advance(p)
    /\ UNCHANGED <<result, offset>>

\* preprocessMermaid up to its first await: the scan, the early return when
\* there is no block, the initialisation of result and offset.
Preprocess(p) ==
    /\ pc[p] = "idle"
    /\ UNCHANGED <<outerVars, exitedOk, missedKeys>>
    /\ LET bs == ExtractMermaidBlocks(markdown[p])
       IN /\ blocks' = [blocks EXCEPT ![p] = bs]
          /\ result' = [result EXCEPT ![p] = markdown[p]]
          /\ offset' = [offset EXCEPT ![p] = 0]
          /\ bi' = [bi EXCEPT ![p] = IF Len(bs) = 0 THEN 0 ELSE 1]
          /\ pc' = [pc EXCEPT ![p] = IF Len(bs) = 0 THEN "done" ELSE "resolve"]
    /\ UNCHANGED <<markdown, repl, call, child, files, returnedKeys, touched, spawns>>

\* The number of renderer subprocesses caller p has spawned so far for a
\* diagram source.
SpawnCount(p, mermaidCode) ==
    IF <<p, mermaidCode>> \in DOMAIN spawns THEN spawns[<<p, mermaidCode>>] ELSE 0

\* A mutant of CacheHit: the existing image is never found.
CacheHitNever(mermaidCode) == FALSE

\* The cache test of renderMermaidToPng: fs.existsSync(outputFile).
CacheHit(mermaidCode) == ExistsSync(OutputFile(mermaidCode))

\* A mutant of AfterSpawn: the loop does not await the promise and goes on to
\* read the image.
AfterSpawnNoAwait == "read"

\* Where the loop of preprocessMermaid is after renderMermaidToPng has spawned
\* the renderer: suspended at its await until the promise is settled.
AfterSpawn == "await"

\* renderMermaidToPng up to the promise: the digest and the two file names, the
\* cache test and, on a miss, the write of the source file and the spawn.
Resolve(p) ==
    /\ pc[p] = "resolve"
    /\ UNCHANGED <<outerVars, exitedOk>>
    /\ LET code == Block(p).code
           base == [NoCall EXCEPT !.key = code,
                                  !.afterReturn = code \in returnedKeys,
                                  !.afterMiss = code \in missedKeys,
                                  !.path = OutputFile(code)]
       IN /\ touched' = touched \cup {[raw |-> RawBody(p),
                                        proc |-> p,
                                        startIndex |-> Block(p).startIndex,
                                        input |-> InputFile(code),
                                        output |-> OutputFile(code)]}
          /\ IF CacheHit(code)
             THEN /\ call' = [call EXCEPT ![p] =
                                [base EXCEPT !.outcome = "hit",
                                             !.existed = TRUE,
                                             !.complete =
                                                 /\ ExistsSync(OutputFile(code))
                                                 /\ files[OutputFile(code)] = PngBytes(code)]]
                  /\ returnedKeys' = returnedKeys \cup {code}
                  /\ pc' = [pc EXCEPT ![p] = "read"]
                  /\ UNCHANGED <<files, child, spawns, missedKeys>>
             ELSE /\ files' = WriteFile(InputFile(code), code)
                  /\ child' = [child EXCEPT ![p] =
                                 [NoChild EXCEPT !.st = "running", !.phase = "started"]]
                  /\ spawns' = [k \in DOMAIN spawns \cup {<<p, code>>} |->
                                  IF k = <<p, code>> THEN SpawnCount(p, code) + 1
                                  ELSE spawns[k]]
                  /\ call' = [call EXCEPT ![p] =
                                [base EXCEPT !.outcome = "pending", !.spawned = 1]]
                  /\ pc' = [pc EXCEPT ![p] = AfterSpawn]
                  /\ missedKeys' = missedKeys \cup {code}
                  /\ UNCHANGED returnedKeys
    /\ UNCHANGED <<markdown, blocks, bi, result, offset, repl>>

\* The renderer subprocess creates (or truncates) its output file.
RendererOpen(p) ==
    /\ child[p].st = "running"
    /\ UNCHANGED <<outerVars, exitedOk, missedKeys>>
    /\ child[p].phase = "started"
    /\ files' = WriteFile(call[p].path, <<>>)
    /\ child' = [child EXCEPT ![p].phase = "opened"]
    /\ UNCHANGED <<markdown, pc, blocks, bi, result, offset, repl, call,
                   returnedKeys, touched, spawns>>

\* The renderer subprocess writes the image into the file it opened (a file
\* unlinked meanwhile does not come back).
RendererWrite(p) ==
    /\ child[p].st = "running"
    /\ UNCHANGED <<outerVars, exitedOk, missedKeys>>
    /\ child[p].phase = "opened"
    /\ files' = IF ExistsSync(call[p].path)
                THEN WriteFile(call[p].path, PngBytes(call[p].key))
                ELSE files
    /\ child' = [child EXCEPT ![p].phase = "written"]
    /\ UNCHANGED <<markdown, pc, blocks, bi, result, offset, repl, call,
                   returnedKeys, touched, spawns>>

\* The renderer subprocess exits: with code 0 after it has written the image
\* or without having produced anything, with a non-zero code and a diagnostic
\* on its error stream at any point.
RendererExit(p) ==
    /\ child[p].st = "running"
    /\ UNCHANGED <<outerVars, missedKeys>>
    /\ \E code \in {0, 1} :
          /\ code = 0 => child[p].phase \in {"started", "written"}
          /\ child' = [child EXCEPT ![p].st = "exited", ![p].code = code,
                                    ![p].stderr = IF code = 0 THEN <<>> ELSE <<"e">>]
          /\ exitedOk' = IF code = 0 /\ child[p].phase = "written"
                         THEN exitedOk \cup {call[p].key}
                         ELSE exitedOk
    /\ UNCHANGED <<markdown, pc, blocks, bi, result, offset, repl, call, files,
                   returnedKeys, touched, spawns>>

\* proc.on("error", reject): the subprocess could not be spawned.
SpawnError(p) ==
    /\ pc[p] = "await"
    /\ UNCHANGED <<outerVars, exitedOk, missedKeys>>
    /\ child[p].st = "running"
    /\ child[p].phase = "started"
    /\ child' = [child EXCEPT ![p] = NoChild]
    /\ call' = [call EXCEPT ![p].outcome = "SpawnError"]
    /\ Skip(p)
    /\ UNCHANGED <<markdown, blocks, files, returnedKeys, touched, spawns>>

\* A mutant of CloseOutcome: the existence of the output file is not tested.
CloseOutcomeNoExists(code, existed) ==
    IF code # 0 THEN "RenderFailure" ELSE "ok"

\* The close handler's decision from the exit code and fs.existsSync(outputFile).
CloseOutcome(code, existed) ==
    IF code # 0 THEN "RenderFailure"
    ELSE IF ~existed THEN "OutputMissing"
    ELSE "ok"

\* The message of the Error the close handler rejects with.
CloseMessage(outcome, stderr) ==
    IF outcome = "RenderFailure" THEN <<"Mermaid rendering failed: ">> \o stderr
    ELSE IF outcome = "OutputMissing" THEN <<"Mermaid output file not created">>
    ELSE <<>>

\* proc.on("close", ...): reject or resolve the promise; a rejection is caught
\* by the loop, which goes on with the next block.
OnClose(p) ==
    /\ pc[p] = "await"
    /\ UNCHANGED <<outerVars, exitedOk, missedKeys>>
    /\ child[p].st = "exited"
    /\ LET existed == ExistsSync(call[p].path)
           outcome == CloseOutcome(child[p].code, existed)
       IN /\ call' = [call EXCEPT ![p].outcome = outcome,
                                  ![p].exit = child[p].code,
                                  ![p].stderr = child[p].stderr,
                                  ![p].existed = existed,
                                  ![p].message = CloseMessage(outcome, child[p].stderr),
                                  ![p].complete =
                                      /\ existed
                                      /\ files[call[p].path] = PngBytes(call[p].key)]
          /\ IF outcome = "ok"
             THEN /\ returnedKeys' = returnedKeys \cup {call[p].key}
                  /\ pc' = [pc EXCEPT ![p] = "read"]
                  /\ UNCHANGED <<bi, result, offset, repl>>
             ELSE /\ Skip(p)
                  /\ UNCHANGED returnedKeys
    /\ child' = [child EXCEPT ![p] = NoChild]
    /\ UNCHANGED <<markdown, blocks, files, touched, spawns>>

\* A mutant of RewriteResult: the block is replaced at its original offsets,
\* without the running offset.
RewriteResultStale(text, block, off, imgMarkdown) ==
    Substring(text, 0, block.startIndex)
        \o imgMarkdown
        \o Substring(text, block.endIndex, Len(text))

\* result after the replacement of one block at its adjusted offsets.
RewriteResult(text, block, off, imgMarkdown) ==
    LET adjustedStart == block.startIndex + off
        adjustedEnd == block.endIndex + off
    IN Substring(text, 0, adjustedStart)
           \o imgMarkdown
           \o Substring(text, adjustedEnd, Len(text))

\* A mutant of NewOffset: the length of the replaced span is not subtracted.
NewOffsetNoSpan(off, block, imgMarkdown) == off + Len(imgMarkdown)

\* offset after the replacement of one block.
NewOffset(off, block, imgMarkdown) ==
    off + Len(imgMarkdown) - (block.endIndex - block.startIndex)

\* The loop body after the await: the image is read and the block replaced;
\* a file that cannot be read throws into the catch clause.
ReadRewrite(p) ==
    /\ pc[p] = "read"
    /\ UNCHANGED <<outerVars, exitedOk, missedKeys>>
    /\ IF ExistsSync(call[p].path)
       THEN LET imgMarkdown == ImgMarkdown(files[call[p].path])
            IN /\ result' = [result EXCEPT ![p] =
                                RewriteResult(result[p], Block(p), offset[p], imgMarkdown)]
               /\ offset' = [offset EXCEPT ![p] =
                                NewOffset(offset[p], Block(p), imgMarkdown)]
               /\ repl' = [repl EXCEPT ![p] =
                              Append(repl[p], [ok |-> TRUE, img |-> imgMarkdown])]
               /\ Advance(p)
       ELSE Skip(p)
    /\ UNCHANGED <<markdown, blocks, call, child, files, returnedKeys, touched, spawns>>

\* cleanup(): every file of the scratch directory is unlinked.
Cleanup ==
    /\ DOMAIN files # {}
    /\ hl' = HlDispose(hl)
    /\ missedKeys' = {}
    /\ UNCHANGED <<cmpA, cmpB, cmpOut, cmpPc, args, disk, conv, exitedOk>>
    /\ files' = <<>>
    /\ returnedKeys' = {}
    /\ UNCHANGED <<markdown, pc, blocks, bi, result, offset, repl, call, child,
                   touched, spawns>>

\* The steps of the preprocessMermaid calls and of their renderer subprocesses.
NextPre ==
    \E p \in Procs :
        \/ Preprocess(p)
        \/ Resolve(p)
        \/ RendererOpen(p)
        \/ RendererWrite(p)
        \/ RendererExit(p)
        \/ SpawnError(p)
        \/ OnClose(p)
        \/ ReadRewrite(p)

\* The same steps, and cleanup() calls at any point between them.
NextCache == NextPre \/ Cleanup

\* One preprocessMermaid call on any document of Texts, nothing else using the
\* scratch directory.
InitPre == InitWith({1}, Texts) /\ CmpOff /\ ConvOff

SpecPre == InitPre /\ [][NextPre]_vars

\* Concurrent preprocessMermaid calls on the documents of CacheTexts, and
\* cleanup() calls, that share the scratch directory.
InitCache == InitWith(Procs, CacheTexts) /\ CmpOff /\ ConvOff

SpecCache == InitCache /\ [][NextCache]_vars

\* ------------------------------------------------------------------ claims
\* The callers whose scan has been done.
Scanned == {p \in Procs : pc[p] \notin {"off", "idle"}}

\* The callers whose preprocessMermaid call has returned.
Returned == {p \in Procs : pc[p] = "done"}

\* The text of block k of caller p in the original document.
SpanText(p, k) ==
    Substring(markdown[p], blocks[p][k].startIndex, blocks[p][k].endIndex)

\* The forward pass over the original text from offset pos and block k on:
\* characters outside the spans are copied, a replaced block's span gives its
\* image reference, a skipped block's span is copied; blocks not yet
\* processed are copied too.
RECURSIVE ForwardPass(_, _, _)
ForwardPass(p, k, pos) ==
    IF k > Len(repl[p]) THEN Substring(markdown[p], pos, Len(markdown[p]))
    ELSE Substring(markdown[p], pos, blocks[p][k].startIndex)
             \o (IF repl[p][k].ok THEN repl[p][k].img ELSE SpanText(p, k))
             \o ForwardPass(p, k + 1, blocks[p][k].endIndex)

\* The cumulative length drift of the replacements made before block k.
RECURSIVE Drift(_, _)
Drift(p, k) ==
    IF k <= 1 THEN 0
    ELSE Drift(p, k - 1)
             + (IF repl[p][k - 1].ok
                THEN Len(repl[p][k - 1].img)
                         - (blocks[p][k - 1].endIndex - blocks[p][k - 1].startIndex)
                ELSE 0)

\* C1: at every point of the loop, and so in the returned text, the in-place
\* rewrite with the running offset equals the forward pass over the original
\* text: text outside the spans unchanged, the image reference for each
\* replaced span, each failed span unchanged.
C1_RewriteIsForwardPass ==
    \A p \in Scanned : result[p] = ForwardPass(p, 1, 0)

\* C1 witness: a call has returned after replacing two blocks, the second at a
\* shifted position and with text after it.
C1_Witness ==
    /\ pc[1] = "done"
    /\ Len(repl[1]) >= 2
    /\ repl[1][1].ok /\ repl[1][2].ok
    /\ Drift(1, 2) # 0
    /\ blocks[1][2].endIndex < Len(markdown[1])

\* C2: a failed block never ends the call: every block is attempted, the call
\* returns, each failed block's fenced text stands untouched at its shifted
\* place and each later block that rendered is replaced at its shifted place.
C2_FailureIsSkipped ==
    \A p \in Procs :
        /\ pc[p] # "raised"
        /\ pc[p] = "done" =>
              /\ Len(repl[p]) = Len(blocks[p])
              /\ \A k \in 1..Len(blocks[p]) :
                    LET q == blocks[p][k].startIndex + Drift(p, k)
                    IN IF repl[p][k].ok
                       THEN Substring(result[p], q, q + Len(repl[p][k].img))
                                = repl[p][k].img
                       ELSE Substring(result[p], q, q + Len(SpanText(p, k)))
                                = SpanText(p, k)

\* C2 witness: a call has returned with its first block failed and its second
\* block replaced.
C2_Witness ==
    /\ pc[1] = "done"
    /\ Len(repl[1]) >= 2
    /\ ~repl[1][1].ok
    /\ repl[1][2].ok

HasDiagram(text) ==
    \E k \in 0..Len(text) :
        /\ MatchesAt(text, k, OpenFence)
        /\ \E c \in (k + Len(OpenFence))..Len(text) : MatchesAt(text, c, CloseFence)

\* C4: for a text with no diagram block the call returns the text unchanged
\* and has touched neither the cache nor the renderer.
C4_NoBlocksNoop ==
    \A p \in Returned :
        ~HasDiagram(markdown[p]) =>
            /\ result[p] = markdown[p]
            /\ call[p] = NoCall
            /\ child[p] = NoChild
            /\ \A t \in touched : t.proc # p
            /\ DOMAIN spawns = {}
            /\ DOMAIN files = {}

\* C4 witness: a call has returned for a text with fences but no block.
C4_Witness ==
    /\ pc[1] = "done"
    /\ ~HasDiagram(markdown[1])
    /\ IndexOf(markdown[1], CloseFence, 0) # -1
    /\ Len(markdown[1]) > Len(CloseFence)

\* C5: the scanned blocks are in strictly ascending order, with non-empty
\* half-open spans inside the text that do not overlap; each span starts at an
\* opening fence and ends right after the first closing fence that follows it.
C5_BlocksOrdered ==
    \A p \in Scanned :
        \A k \in 1..Len(blocks[p]) :
            LET b == blocks[p][k]
            IN /\ 0 <= b.startIndex
               /\ b.startIndex < b.endIndex
               /\ b.endIndex <= Len(markdown[p])
               /\ MatchesAt(markdown[p], b.startIndex, OpenFence)
               /\ IndexOf(markdown[p], CloseFence, b.startIndex + Len(OpenFence))
                      = b.endIndex - Len(CloseFence)
               /\ k > 1 => /\ blocks[p][k - 1].startIndex < b.startIndex
                           /\ blocks[p][k - 1].endIndex <= b.startIndex

\* C5 witness: a scan gave two blocks, the second not right after the first,
\* in a text with a further closing fence after the first block's.
C5_Witness ==
    /\ 1 \in Scanned
    /\ Len(blocks[1]) >= 2
    /\ blocks[1][1].endIndex < blocks[1][2].startIndex

\* C6: an opening fence with no closing fence after it starts no block, and
\* the empty text gives the empty block sequence.
C6_UnclosedIgnored ==
    \A p \in Scanned :
        /\ markdown[p] = <<>> => blocks[p] = <<>>
        /\ \A k \in 0..Len(markdown[p]) :
              (/\ MatchesAt(markdown[p], k, OpenFence)
               /\ IndexOf(markdown[p], CloseFence, k + Len(OpenFence)) = -1)
                  => \A j \in 1..Len(blocks[p]) : blocks[p][j].startIndex # k

\* C6 witness: a scan of a text with a block followed by an unclosed opening
\* fence has been done.
C6_Witness ==
    /\ 1 \in Scanned
    /\ Len(blocks[1]) = 1
    /\ IndexOf(markdown[1], OpenFence, blocks[1][1].endIndex) # -1

C8_KeyIsTrimmedSource ==
    /\ \A t \in touched :
          /\ t.input = InputFile(Trim(t.raw))
          /\ t.output = OutputFile(Trim(t.raw))
    /\ \A t1, t2 \in touched :
          Trim(t1.raw) = Trim(t2.raw) =>
              t1.input = t2.input /\ t1.output = t2.output

\* C8 witness: two callers have computed names for blocks at different
\* positions whose bodies differ and are equal after trimming.
C8_Witness ==
    \E t1, t2 \in touched :
        /\ t1.proc # t2.proc
        /\ t1.startIndex # t2.startIndex
        /\ t1.raw # t2.raw
        /\ Trim(t1.raw) = Trim(t2.raw)

\* C9 as stated: every call that returns a path returns the path of a file
\* that exists and holds the complete image of the source.
C9_ReturnedImageComplete ==
    \A p \in Procs :
        call[p].outcome \in {"hit", "ok"} => call[p].complete

\* C10: a renderer invocation is rejected with the render failure carrying the
\* error stream exactly when the exit code is not 0, with the output-missing
\* failure exactly when the code is 0 and the output file does not exist, and
\* resolves with the output path exactly when the code is 0 and the file
\* exists; a call spawns at most one subprocess.
C10_AdapterOutcome ==
    \A p \in Procs :
        LET c == call[p]
        IN /\ c.spawned <= 1
           /\ c.exit # -1 =>
                 /\ c.spawned = 1
                 /\ c.outcome = "RenderFailure" <=> c.exit # 0
                 /\ c.outcome = "OutputMissing" <=> (c.exit = 0 /\ ~c.existed)
                 /\ c.outcome = "ok" <=> (c.exit = 0 /\ c.existed)
                 /\ c.outcome = "RenderFailure" =>
                       c.message = <<"Mermaid rendering failed: ">> \o c.stderr
                 /\ c.outcome = "OutputMissing" =>
                       c.message = <<"Mermaid output file not created">>
                 /\ c.outcome = "ok" => c.path = OutputFile(c.key)
           /\ c.outcome \in {"RenderFailure", "OutputMissing", "ok"} => c.exit # -1

\* C10 witness: one invocation was rejected with the render failure and a
\* non-empty error stream, another with the output-missing failure.
C10_Witness ==
    /\ call[1].outcome = "RenderFailure"
    /\ call[1].stderr # <<>>
    /\ call[2].outcome = "OutputMissing"
    /\ call[2].exit = 0

\* ------------------------------------------------------------ naturalSort
\* The ASCII decimal digits, the characters \d of the tokenizer matches.
Digits == <<"0", "1", "2", "3", "4", "5", "6", "7", "8", "9">>

IsDigit(c) == \E k \in 1..Len(Digits) : Digits[k] = c

DigitVal(c) == (CHOOSE k \in 1..Len(Digits) : Digits[k] = c) - 1

\* The last position (1-based) of the maximal run of digits, or of non-digits,
\* that position k of s belongs to.
RECURSIVE RunEnd(_, _)
RunEnd(s, k) ==
    IF k < Len(s) /\ IsDigit(s[k + 1]) = IsDigit(s[k])
    THEN RunEnd(s, k + 1)
    ELSE k

RECURSIVE MatchFrom(_, _)
MatchFrom(s, k) ==
    IF k > Len(s)
    THEN <<>>
    ELSE LET e == RunEnd(s, k)
         IN <<SubSeq(s, k, e)>> \o MatchFrom(s, e + 1)

\* a.match(/(\d+)|(\D+)/g) || [] : the name cut into its maximal digit runs and
\* non-digit runs, in order.
Parts(s) == MatchFrom(s, 1)

\* A decimal numeral without its leading zeros ("0" for zero).
RECURSIVE StripZeros(_)
StripZeros(ds) ==
    IF Len(ds) > 1 /\ ds[1] = "0" THEN StripZeros(Tail(ds)) ELSE ds

\* x < y for two numerals without leading zeros.
RECURSIVE DecLexLess(_, _)
DecLexLess(x, y) ==
    /\ x # <<>>
    /\ \/ DigitVal(x[1]) < DigitVal(y[1])
       \/ x[1] = y[1] /\ DecLexLess(Tail(x), Tail(y))

DecLess(x, y) ==
    \/ Len(x) < Len(y)
    \/ Len(x) = Len(y) /\ DecLexLess(x, y)

\* The numeral of n + 1.
RECURSIVE Incr(_)
Incr(ds) ==
    IF ds = <<>>
    THEN <<"1">>
    ELSE LET last == ds[Len(ds)]
             init == SubSeq(ds, 1, Len(ds) - 1)
         IN IF last = "9"
            THEN Incr(init) \o <<"0">>
            ELSE init \o <<Digits[DigitVal(last) + 2]>>

\* 2^53 = 9007199254740992: up to here every integer is a Number.
Two53 == <<"9", "0", "0", "7", "1", "9", "9", "2", "5", "4", "7", "4", "0", "9", "9", "2">>

\* The Number (IEEE 754 double, round to nearest, ties to even) nearest to the
\* integer with numeral ds, as the numeral of its exact value. Exact below
\* 2^53; between 2^53 and 2^54 an odd integer goes to its neighbour that is a
\* multiple of 4. Numerals of 2^54 and more are outside the inputs modelled.
ToNumber(ds) ==
    LET n == Len(ds)
        last == DigitVal(ds[n])
        two == 10 * DigitVal(ds[n - 1]) + last
    IN IF DecLess(ds, Two53) \/ last % 2 = 0
       THEN ds
       ELSE IF two % 4 = 1
            THEN SubSeq(ds, 1, n - 1) \o <<Digits[last]>>
            ELSE Incr(ds)

\* parseInt(..., 10) did not find a number.
NaN == [nan |-> TRUE, digits |-> <<>>]

\* parseInt(part, 10) of a token of the tokenizer: NaN for the empty string and
\* for a run of non-digits (white space or a sign in it is followed by no
\* digit), the Number nearest to the value for a run of digits.
ParseInt(part) ==
    IF part = <<>> \/ ~IsDigit(part[1])
    THEN NaN
    ELSE [nan |-> FALSE, digits |-> ToNumber(StripZeros(part))]

\* The characters of the names modelled, in the order of their primary weights
\* in the default collation of localeCompare: punctuation, digits, letters.
Collation == <<"_", "-", ".", "0", "1", "2", "3", "4", "5", "6", "7", "8", "9",
               "a", "d", "e", "f", "i", "l", "m", "t", "x">>

\* The character SUPERSCRIPT TWO (U+00B2): not a digit for the tokenizer and
\* for parseInt, and a variant of the digit 2 for the collation.
Sup2 == "SUPERSCRIPT2"

\* The character whose primary weight a character has in the collation.
Primary(c) == IF c = Sup2 THEN "2" ELSE c

Weight(c) == CHOOSE k \in 1..Len(Collation) : Collation[k] = Primary(c)

\* The comparison of two strings of equal primary weights: at the first
\* difference the plain digit sorts before its superscript variant.
RECURSIVE TertiaryCompare(_, _)
TertiaryCompare(a, b) ==
    IF a = <<>> \/ b = <<>> THEN 0
    ELSE IF a[1] = b[1] THEN TertiaryCompare(Tail(a), Tail(b))
    ELSE IF a[1] = Sup2 THEN 1
    ELSE -1

\* The comparison of the primary weights: the first differing weight decides,
\* a proper prefix sorts first.
RECURSIVE PrimaryCompare(_, _)
PrimaryCompare(a, b) ==
    IF a = <<>> /\ b = <<>> THEN 0
    ELSE IF a = <<>> THEN -1
    ELSE IF b = <<>> THEN 1
    ELSE IF Weight(a[1]) < Weight(b[1]) THEN -1
    ELSE IF Weight(a[1]) > Weight(b[1]) THEN 1
    ELSE PrimaryCompare(Tail(a), Tail(b))

\* The sign of a.localeCompare(b): the primary weights decide, and between
\* strings of equal primary weights the variants of the characters.
LocaleCompare(a, b) ==
    IF PrimaryCompare(a, b) # 0 THEN PrimaryCompare(a, b)
    ELSE TertiaryCompare(a, b)

\* aParts[i] || "" with the part of a missing token taken to be "0".
PartAtZero(parts, i) == IF i <= Len(parts) THEN parts[i] ELSE <<"0">>

\* aParts[i] || "" : the token at (1-based) position i, the empty string where
\* the name has no such token.
PartAt(parts, i) == IF i <= Len(parts) THEN parts[i] ELSE <<>>

\* One round of the loop of naturalSort, from position i on; the value returned
\* is modelled by its sign.
RECURSIVE NaturalSortFrom(_, _, _)
NaturalSortFrom(aParts, bParts, i) ==
    IF i > Len(aParts) /\ i > Len(bParts)
    THEN 0
    ELSE LET aPart == PartAt(aParts, i)
             bPart == PartAt(bParts, i)
             aNum == ParseInt(aPart)
             bNum == ParseInt(bPart)
             cmp == IF ~aNum.nan /\ ~bNum.nan
                    THEN IF DecLess(aNum.digits, bNum.digits) THEN -1
                         ELSE IF DecLess(bNum.digits, aNum.digits) THEN 1
                         ELSE 0
                    ELSE LocaleCompare(aPart, bPart)
         IN IF cmp # 0 THEN cmp ELSE NaturalSortFrom(aParts, bParts, i + 1)

\* naturalSort(a, b).
NaturalSort(a, b) == NaturalSortFrom(Parts(a), Parts(b), 1)

\* ".md", the extension convertDirectory selects.
MdExt == <<".", "m", "d">>

\* The names the comparator is called on: the names of the tests, names that
\* differ in leading zeros, names whose tokens are a prefix of another name's,
\* two names whose digit runs are 2^53 and 2^53 + 1, and names that start with
\* a digit run or with the superscript of a digit.
CmpNames ==
    { <<"f", "1">> \o MdExt,
      <<"f", "2">> \o MdExt,
      <<"f", "1", "0">> \o MdExt,
      <<"f", "0", "1">> \o MdExt,
      <<"f", "i", "l", "e", "2">> \o MdExt,
      <<"f", "i", "l", "e", "1", "0">> \o MdExt,
      <<"f">>,
      <<"f", "1">>,
      <<"f", "-", "1">> \o MdExt,
      Two53 \o MdExt,
      Incr(Two53) \o MdExt,
      <<"3">> \o MdExt,
      <<"1", "0">> \o MdExt,
      <<Sup2>> \o MdExt }

\* Any two names are handed to the comparator.
InitCmp ==
    /\ InitWith({}, Texts)
    /\ ConvOff
    /\ cmpA \in CmpNames
    /\ cmpB \in CmpNames
    /\ cmpOut = 0
    /\ cmpPc = "ready"

\* One call naturalSort(cmpA, cmpB), as the sort makes it.
CompareNames ==
    /\ cmpPc = "ready"
    /\ cmpOut' = NaturalSort(cmpA, cmpB)
    /\ cmpPc' = "done"
    /\ UNCHANGED <<preVars, cmpA, cmpB, args, disk, conv, hl>>

NextCmp == CompareNames

\* The default comparator on every pair of CmpNames.
SpecCmp == InitCmp /\ [][NextCmp]_vars

\* The integer a digit run denotes is smaller than the one b denotes.
IntLess(a, b) == DecLess(StripZeros(a), StripZeros(b))

\* The token sequences pa and pb are identical except for one digit run at the
\* same position, where pa holds the smaller integer.
SmallerInOneDigitRun(pa, pb) ==
    /\ Len(pa) = Len(pb)
    /\ \E i \in 1..Len(pa) :
          /\ IsDigit(pa[i][1])
          /\ IsDigit(pb[i][1])
          /\ IntLess(pa[i], pb[i])
          /\ \A j \in 1..Len(pa) : j # i => pa[j] = pb[j]

\* C11: for two names that are identical except for one digit run at the same
\* token position, the default comparator puts the name whose digit run is the
\* smaller integer first.
C11_DigitRunsAsIntegers ==
    cmpPc = "done" =>
        /\ SmallerInOneDigitRun(Parts(cmpA), Parts(cmpB)) => cmpOut < 0
        /\ SmallerInOneDigitRun(Parts(cmpB), Parts(cmpA)) => cmpOut > 0

\* The token sequence pa is a proper prefix of pb.
IsProperPrefix(pa, pb) ==
    /\ Len(pa) < Len(pb)
    /\ SubSeq(pb, 1, Len(pa)) = pa

\* C12: when the token sequence of one name is a proper prefix of the other's,
\* the default comparator puts the name with fewer tokens first, whether the
\* first extra token is a digit run or a run of non-digits.
C12_FewerTokensFirst ==
    cmpPc = "done" =>
        /\ IsProperPrefix(Parts(cmpA), Parts(cmpB)) => cmpOut < 0
        /\ IsProperPrefix(Parts(cmpB), Parts(cmpA)) => cmpOut > 0

\* C12 witness: a name was compared with one that continues it with a digit
\* run, and came first.
C12_Witness ==
    /\ cmpPc = "done"
    /\ IsProperPrefix(Parts(cmpA), Parts(cmpB))
    /\ IsDigit(Parts(cmpB)[Len(Parts(cmpA)) + 1][1])
    /\ cmpOut < 0

\* ------------------------------------ convertFile, convertDirectory, convertFiles
\* Largest number of paths handed to convertFiles.
MaxPaths == 3

\* The working directory, against which path.resolve resolves a relative path.
Cwd == <<"/", "w", "/">>

\* path.resolve(p) of a relative path.
PathResolve(p) == Cwd \o p

\* path.join(dir, file).
PathJoin(dir, file) == dir \o <<"/">> \o file

\* The inputDir argument of convertDirectory.
InputDir == <<"i", "n">>

\* The entries a directory listing can hold, and the paths handed to
\* convertFile and convertFiles.
F2md == <<"f", "2">> \o MdExt
F02md == <<"f", "0", "2">> \o MdExt
F10md == <<"f", "1", "0">> \o MdExt
Ntxt == <<"n", ".", "t", "x", "t">>
Dmd == <<"d">> \o MdExt
Gmd == <<"g">> \o MdExt
Hmd == <<"h">> \o MdExt

\* What is found at a path: Dmd is a directory, Gmd and Hmd do not exist, the
\* others are files.
KindOf(name) ==
    IF name = Dmd THEN "dir"
    ELSE IF name \in {Gmd, Hmd} THEN "missing"
    ELSE "file"

\* fs.readFileSync(path, "utf-8") of the files: F2md ends inside an opened
\* fence, F02md starts with a closing fence, F10md holds one diagram block.
BodyOf(name) ==
    IF name = F2md THEN <<"x">> \o OpenFence \o <<"A">>
    ELSE IF name = F02md THEN CloseFence \o <<"y">>
    ELSE IF name = F10md THEN BlockA
    ELSE <<"n">>

\* "\n\n<div style=\"page-break-after: always;\"></div>\n\n"
PageBreakMarkdown ==
    <<"\n", "\n", "<", "d", "i", "v", " ", "s", "t", "y", "l", "e", "=", "\"",
      "p", "a", "g", "e", "-", "b", "r", "e", "a", "k", "-", "a", "f", "t", "e",
      "r", ":", " ", "a", "l", "w", "a", "y", "s", ";", "\"", ">", "<", "/",
      "d", "i", "v", ">", "\n", "\n">>

\* "\n\n---\n\n"
HrMarkdown == <<"\n", "\n", "-", "-", "-", "\n", "\n">>

\* separatorMarkdown as convertDirectory determines it; an option that is not
\* given is "unset".
SeparatorMarkdownDir(option) ==
    LET separator == IF option = "unset" THEN "pagebreak" ELSE option
    IN IF separator = "pagebreak" THEN PageBreakMarkdown
       ELSE IF separator = "hr" THEN HrMarkdown
       ELSE <<>>

\* A mutant of SeparatorMarkdownFiles: a rule unless the separator is "none".
SeparatorMarkdownFilesHr(option) ==
    IF option = "none" THEN <<>> ELSE HrMarkdown

\* separatorMarkdown as convertFiles determines it.
SeparatorMarkdownFiles(option) ==
    LET separator == IF option = "unset" THEN "pagebreak" ELSE option
    IN IF separator = "pagebreak" THEN PageBreakMarkdown
       ELSE IF separator = "hr" THEN HrMarkdown
       ELSE <<>>

\* file.endsWith(suffix).
EndsWith(s, suffix) ==
    /\ Len(s) >= Len(suffix)
    /\ SubSeq(s, Len(s) - Len(suffix) + 1, Len(s)) = suffix

\* readdirSync(...).filter(file => file.endsWith(".md")).
MdFilter(listing) == SelectSeq(listing, LAMBDA file : EndsWith(file, MdExt))

\* A comparator a caller supplies as options.sortFn: shorter names first.
ByLength(a, b) ==
    IF Len(a) < Len(b) THEN -1 ELSE IF Len(a) > Len(b) THEN 1 ELSE 0

\* A mutant of SortFn: naturalSort decides what the caller's comparator
\* leaves equal.
SortFnNaturalTies(sortFn, a, b) ==
    IF sortFn = "unset" \/ ByLength(a, b) = 0
    THEN NaturalSort(a, b)
    ELSE ByLength(a, b)

\* options.sortFn || this.naturalSort.bind(this), applied to a and b.
SortFn(sortFn, a, b) ==
    IF sortFn = "unset" THEN NaturalSort(a, b) ELSE ByLength(a, b)

\* One insertion of the stable sort: x goes behind the last element that is
\* not greater than x.
RECURSIVE InsertSorted(_, _, _)
InsertSorted(sorted, x, sortFn) ==
    IF sorted = <<>>
    THEN <<x>>
    ELSE LET last == sorted[Len(sorted)]
         IN IF SortFn(sortFn, last, x) > 0
            THEN Append(InsertSorted(SubSeq(sorted, 1, Len(sorted) - 1), x, sortFn), last)
            ELSE Append(sorted, x)

\* Array.prototype.sort(comparator), which is stable: for a comparator that is
\* a total preorder every stable sort gives this sequence.
RECURSIVE Sort(_, _)
Sort(names, sortFn) ==
    IF names = <<>>
    THEN <<>>
    ELSE InsertSorted(Sort(SubSeq(names, 1, Len(names) - 1), sortFn),
                      names[Len(names)], sortFn)

\* A mutant of Join: the separator follows every body.
RECURSIVE JoinTrailing(_, _)
JoinTrailing(contents, separatorMarkdown) ==
    IF contents = <<>>
    THEN <<>>
    ELSE contents[1] \o separatorMarkdown \o JoinTrailing(Tail(contents), separatorMarkdown)

\* contents.join(separatorMarkdown).
RECURSIVE Join(_, _)
Join(contents, separatorMarkdown) ==
    IF contents = <<>> THEN <<>>
    ELSE IF Len(contents) = 1 THEN contents[1]
    ELSE contents[1] \o separatorMarkdown \o Join(Tail(contents), separatorMarkdown)

\* A mutant of InputNotFound: the error does not name the path.
InputNotFoundUnnamed(path) ==
    [text |-> "Input file not found", path |-> <<>>, phase |-> "Idle"]

\* new Error("Input file not found: " + absoluteInputPath).
InputNotFound(path) ==
    [text |-> "Input file not found: ", path |-> path, phase |-> "Idle"]

\* The error fs.readFileSync throws on a path that is a directory.
ReadError(path) ==
    [text |-> "EISDIR: illegal operation on a directory, read", path |-> path,
     phase |-> "Idle"]

\* A mutant of DirectoryCheck: the stat test is made before the existence test.
DirectoryCheckStatFirst(inKind, mdFiles) ==
    IF inKind # "dir" THEN "Not a directory: "
    ELSE IF inKind = "missing" THEN "Input directory not found: "
    ELSE IF Len(mdFiles) = 0 THEN "No markdown files found in: "
    ELSE ""

\* The three tests of convertDirectory, in the order of the code: the text of
\* the error thrown, "" when none is.
DirectoryCheck(inKind, mdFiles) ==
    IF inKind = "missing" THEN "Input directory not found: "
    ELSE IF inKind # "dir" THEN "Not a directory: "
    ELSE IF Len(mdFiles) = 0 THEN "No markdown files found in: "
    ELSE ""

\* The loop of convertDirectory over files, from entry k on: the bodies read,
\* or the error of the first entry that cannot be read.
RECURSIVE ReadEntriesFrom(_, _, _, _)
ReadEntriesFrom(dir, mdFiles, k, contents) ==
    IF k > Len(mdFiles)
    THEN [error |-> NoError, contents |-> contents]
    ELSE IF KindOf(mdFiles[k]) = "dir"
         THEN [error |-> ReadError(PathJoin(dir, mdFiles[k])), contents |-> contents]
         ELSE ReadEntriesFrom(dir, mdFiles, k + 1, Append(contents, BodyOf(mdFiles[k])))

\* A mutant of InputOrder: the paths are sorted, shorter names first.
InputOrderSorted(inputPaths) == Sort(inputPaths, "byLength")

\* for (const inputPath of inputPaths): the order the loop of convertFiles
\* visits the paths in.
InputOrder(inputPaths) == inputPaths

\* The loop of convertFiles, from path k on: the bodies read, or the error of
\* the first path that does not exist or cannot be read.
RECURSIVE ReadFilesFrom(_, _, _)
ReadFilesFrom(inputPaths, k, contents) ==
    IF k > Len(inputPaths)
    THEN [error |-> NoError, contents |-> contents]
    ELSE LET absoluteInputPath == PathResolve(inputPaths[k])
         IN IF KindOf(inputPaths[k]) = "missing"
            THEN [error |-> InputNotFound(absoluteInputPath), contents |-> contents]
            ELSE IF KindOf(inputPaths[k]) = "dir"
            THEN [error |-> ReadError(absoluteInputPath), contents |-> contents]
            ELSE ReadFilesFrom(inputPaths, k + 1,
                               Append(contents, BodyOf(inputPaths[k])))

\* The locals c of a call that throws error.
Fail(c, error) == [c EXCEPT !.pc = "Failed", !.error = error]

\* A mutant of EnableMermaid: diagrams are preprocessed in every call.
EnableMermaidAlways(a) == TRUE

\* const { enableMermaid = false } = options: whether the call preprocesses
\* diagrams (an omitted option is false).
EnableMermaid(a) == a.enableMermaid

\* The call this.convert(text, options) up to its first await, with c the
\* locals of the entry point: with enableMermaid the text is handed to
\* preprocessMermaid (caller 1 of the pipeline), else to the engine.
CallConvert(c, text) ==
    /\ conv' = [c EXCEPT !.merged = text,
                         !.processed = IF EnableMermaid(args) THEN <<>> ELSE text,
                         !.pc = IF EnableMermaid(args) THEN "Preprocessing"
                                                       ELSE "Rendering"]
    /\ markdown' = IF EnableMermaid(args) THEN [markdown EXCEPT ![1] = text]
                                          ELSE markdown
    /\ pc' = IF EnableMermaid(args) THEN [pc EXCEPT ![1] = "idle"] ELSE pc
    /\ hl' = IF EnableMermaid(args) THEN hl ELSE HlGet(hl, 1)

\* What the entry points leave alone before convert returns.
gatherFrame ==
    <<blocks, bi, result, offset, repl, call, child, files, returnedKeys,
      touched, spawns, exitedOk, missedKeys, cmpA, cmpB, cmpOut, cmpPc, args,
      disk>>

\* convertFile up to the call of convert.
ConvertFile ==
    /\ conv.pc = "Idle"
    /\ args.entry = "convertFile"
    /\ LET absoluteInputPath == PathResolve(args.input)
       IN IF KindOf(args.input) = "missing"
          THEN /\ conv' = Fail(conv, InputNotFound(absoluteInputPath))
               /\ UNCHANGED <<markdown, pc, hl>>
          ELSE IF KindOf(args.input) = "dir"
          THEN /\ conv' = Fail(conv, ReadError(absoluteInputPath))
               /\ UNCHANGED <<markdown, pc, hl>>
          ELSE CallConvert(conv, BodyOf(args.input))
    /\ UNCHANGED gatherFrame

\* The characters of the names modelled, in the order of their UTF-16 code
\* units.
CodeUnits == <<"-", ".", "0", "1", "2", "3", "4", "5", "6", "7", "8", "9", "_",
               "a", "d", "e", "f", "i", "l", "m", "n", "t", "x">>

CodeUnit(c) == CHOOSE k \in 1..Len(CodeUnits) : CodeUnits[k] = c

\* Whether a sorts after b for Array.prototype.sort() without a comparator:
\* the first differing code unit decides, a proper prefix sorts first.
RECURSIVE DefaultAfter(_, _)
DefaultAfter(a, b) ==
    IF a = <<>> THEN FALSE
    ELSE IF b = <<>> THEN TRUE
    ELSE IF a[1] # b[1] THEN CodeUnit(a[1]) > CodeUnit(b[1])
    ELSE DefaultAfter(Tail(a), Tail(b))

\* One insertion of the sort without a comparator.
RECURSIVE InsertDefault(_, _)
InsertDefault(sorted, x) ==
    IF sorted = <<>>
    THEN <<x>>
    ELSE LET last == sorted[Len(sorted)]
         IN IF DefaultAfter(last, x)
            THEN Append(InsertDefault(SubSeq(sorted, 1, Len(sorted) - 1), x), last)
            ELSE Append(sorted, x)

\* Array.prototype.sort() without a comparator.
RECURSIVE DefaultSort(_)
DefaultSort(names) ==
    IF names = <<>>
    THEN <<>>
    ELSE InsertDefault(DefaultSort(SubSeq(names, 1, Len(names) - 1)),
                       names[Len(names)])

\* The entries of the list the command line prints before the first one it
\* cannot read.
RECURSIVE ReadableFrom(_, _)
ReadableFrom(mdFiles, k) ==
    IF k > Len(mdFiles) \/ KindOf(mdFiles[k]) = "dir"
    THEN <<>>
    ELSE <<mdFiles[k]>> \o ReadableFrom(mdFiles, k + 1)

\* The directory mode of the command line up to its call of convertDirectory:
\* the .md entries are sorted without a comparator, the run exits when the
\* input or an .md entry is missing, else every entry is read and printed
\* with its number; an entry that cannot be read ends the run, in detectMermaid
\* before anything is printed or in the loop that prints.
CliDirectory ==
    /\ conv.pc = "Idle"
    /\ args.entry = "cli"
    /\ conv.cli = "start"
    /\ LET mdFiles == DefaultSort(MdFilter(disk.listing))
           readable == ReadableFrom(mdFiles, 1)
       IN IF disk.inKind # "dir" \/ Len(mdFiles) = 0
          THEN conv' = [conv EXCEPT !.cli = "exited"]
          ELSE IF readable # mdFiles
          THEN \E shown \in {<<>>, readable} :
                  conv' = [conv EXCEPT !.cli = "exited", !.printed = shown]
          ELSE conv' = [conv EXCEPT !.cli = "listed", !.printed = mdFiles]
    /\ UNCHANGED <<preVars, cmpA, cmpB, cmpOut, cmpPc, args, disk, hl>>

\* convertDirectory up to the call of convert: the tests, the listing
\* filtered and sorted, the separator, the bodies read and joined.
ConvertDirectory ==
    /\ conv.pc = "Idle"
    /\ \/ args.entry = "convertDirectory"
       \/ args.entry = "cli" /\ conv.cli = "listed"
    /\ LET absoluteInputDir == PathResolve(args.input)
           mdFiles == IF disk.inKind = "dir"
                      THEN Sort(MdFilter(disk.listing), args.sortFn)
                      ELSE <<>>
           thrown == DirectoryCheck(disk.inKind, mdFiles)
           separatorMarkdown == SeparatorMarkdownDir(args.separator)
           read == ReadEntriesFrom(absoluteInputDir, mdFiles, 1, <<>>)
           c == [conv EXCEPT !.files = mdFiles]
           d == [c EXCEPT !.sep = separatorMarkdown, !.contents = read.contents]
       IN IF thrown # ""
          THEN /\ conv' = Fail(c, [text |-> thrown, path |-> absoluteInputDir,
                                   phase |-> "Idle"])
               /\ UNCHANGED <<markdown, pc, hl>>
          ELSE IF read.error # NoError
          THEN /\ conv' = Fail(d, read.error)
               /\ UNCHANGED <<markdown, pc, hl>>
          ELSE CallConvert(d, Join(read.contents, separatorMarkdown))
    /\ UNCHANGED gatherFrame

\* convertFiles up to the call of convert: the test of the list, the
\* separator, the bodies read in the order of the list and joined.
ConvertFiles ==
    /\ conv.pc = "Idle"
    /\ args.entry = "convertFiles"
    /\ LET separatorMarkdown == SeparatorMarkdownFiles(args.separator)
           read == ReadFilesFrom(InputOrder(args.inputPaths), 1, <<>>)
           d == [conv EXCEPT !.sep = separatorMarkdown, !.contents = read.contents]
       IN IF Len(args.inputPaths) = 0
          THEN /\ conv' = Fail(conv, [text |-> "No input files provided",
                                      path |-> <<>>, phase |-> "Idle"])
               /\ UNCHANGED <<markdown, pc, hl>>
          ELSE IF read.error # NoError
          THEN /\ conv' = Fail(d, read.error)
               /\ UNCHANGED <<markdown, pc, hl>>
          ELSE CallConvert(d, Join(read.contents, separatorMarkdown))
    /\ UNCHANGED gatherFrame

\* A mutant of PreprocessSettled: convert goes on as soon as the scan is done.
PreprocessSettledEarly(p) == pc[p] # "idle"

\* await this.preprocessMermaid(markdown) has settled: the call of caller p
\* has returned.
PreprocessSettled(p) == pc[p] = "done"

\* convert after preprocessMermaid has returned: processedMarkdown is its
\* result.
PreprocessReturn ==
    /\ conv.pc = "Preprocessing"
    /\ PreprocessSettled(1)
    /\ conv' = [conv EXCEPT !.processed = result[1], !.pc = "Rendering"]
    /\ hl' = HlGet(hl, 1)
    /\ UNCHANGED <<preVars, cmpA, cmpB, cmpOut, cmpPc, args, disk>>

\* createHighlighter, started by the getHighlighter call of caller p, has
\* resolved.
HighlighterCreated(p) ==
    /\ hl.st[p] = "creating"
    /\ hl' = HlCreated(hl, p)
    /\ UNCHANGED <<preVars, cmpA, cmpB, cmpOut, cmpPc, args, disk, conv>>

\* processor.process(processedMarkdown), which awaits the highlighter in the
\* preprocess hook of the code plugin: the engine throws, or gives a result of
\* some type for the text.
Process ==
    /\ conv.pc = "Rendering"
    /\ hl.st[1] = "loaded"
    /\ \E outcome \in {"Buffer", "Uint8Array", "Other", "throws"} :
          conv' = IF outcome = "throws"
                  THEN Fail(conv, [text |-> "docx conversion failed",
                                   path |-> <<>>, phase |-> "Rendering"])
                  ELSE [conv EXCEPT !.output = [type |-> outcome, of |-> conv.processed],
                                    !.pc = "Normalizing"]
    /\ UNCHANGED <<preVars, cmpA, cmpB, cmpOut, cmpPc, args, disk, hl>>

\* A mutant of AfterNormalize: the entry point goes on after the throw.
AfterNormalizeAlways(type) == "Writing"

\* Where the call is after the instanceof tests of convert: it returns for a
\* Buffer and for a Uint8Array, and throws for anything else.
AfterNormalize(type) ==
    IF type \in {"Buffer", "Uint8Array"} THEN "Writing" ELSE "Failed"

\* The instanceof tests of convert on the result of the engine.
Normalize ==
    /\ conv.pc = "Normalizing"
    /\ LET type == conv.output.type
       IN conv' = [conv EXCEPT
                     !.pc = AfterNormalize(type),
                     !.buffer = IF type \in {"Buffer", "Uint8Array"}
                                THEN [type |-> "Buffer", of |-> conv.output.of]
                                ELSE NoOutput,
                     !.error = IF type \in {"Buffer", "Uint8Array"}
                               THEN NoError
                               ELSE [text |-> "Unexpected result type from docx conversion",
                                     path |-> <<>>, phase |-> "Normalizing"]]
    /\ UNCHANGED <<preVars, cmpA, cmpB, cmpOut, cmpPc, args, disk, hl>>

\* What fs.writeFileSync leaves in a file it has opened (created or truncated)
\* when the write then fails.
PartialOutput == [type |-> "partial", of |-> <<>>]

\* The destination after mkdirSync (when the directory is missing) and
\* writeFileSync, for each way the two calls can end: mkdirSync throws,
\* writeFileSync cannot open the file, writeFileSync fails after it has opened
\* the file, or both succeed.
DestAfter(dest, buffer, outcome) ==
    IF outcome = "mkdirFails" THEN dest
    ELSE IF outcome = "openFails" THEN [dest EXCEPT !.dir = TRUE]
    ELSE IF outcome = "writeFails"
    THEN [dir |-> TRUE, file |-> TRUE, content |-> PartialOutput]
    ELSE [dir |-> TRUE, file |-> TRUE, content |-> buffer]

\* The end of the three entry points: the destination directory is made when
\* it is missing, and the buffer is written to outputPath; an I/O error of
\* either call is thrown to the caller.
WriteOutput ==
    /\ conv.pc = "Writing"
    /\ \E outcome \in {"ok", "mkdirFails", "openFails", "writeFails"} :
          /\ outcome = "mkdirFails" => ~disk.dest.dir
          /\ disk' = [disk EXCEPT !.dest = DestAfter(disk.dest, conv.buffer, outcome)]
          /\ conv' = IF outcome = "ok"
                     THEN [conv EXCEPT !.pc = "Done"]
                     ELSE Fail(conv, [text |-> outcome, path |-> <<>>,
                                      phase |-> "Writing"])
    /\ UNCHANGED <<preVars, cmpA, cmpB, cmpOut, cmpPc, args, hl>>

\* The entries a directory listing is drawn from.
DirNames == {F2md, F02md, F10md, Ntxt, Dmd}

\* The orders readdirSync can enumerate the names of S in.
Perms(S) ==
    {l \in [1..Cardinality(S) -> S] :
        \A i, j \in 1..Cardinality(S) : i # j => l[i] # l[j]}

\* Every listing of every directory made of DirNames.
Listings == UNION {Perms(S) : S \in SUBSET DirNames}

\* The paths a list handed to convertFiles is drawn from.
PathNames == {F2md, F02md, Dmd, Gmd, Hmd}

\* The lists handed to convertFiles, repetitions included.
PathLists == UNION {[1..n -> PathNames] : n \in 0..MaxPaths}

Separators == {"unset", "pagebreak", "hr", "none"}

\* The calls of the three entry points, and the runs of the command line on a
\* directory (its separator option defaults to pagebreak).
Calls ==
    [entry : {"convertFile"}, input : {F10md, Dmd, Gmd}, inputPaths : {<<>>},
     separator : {"unset"}, sortFn : {"unset"}, enableMermaid : BOOLEAN]
    \cup
    [entry : {"convertDirectory"}, input : {InputDir}, inputPaths : {<<>>},
     separator : Separators, sortFn : {"unset", "byLength"},
     enableMermaid : BOOLEAN]
    \cup
    [entry : {"convertFiles"}, input : {<<>>}, inputPaths : PathLists,
     separator : Separators, sortFn : {"unset"}, enableMermaid : BOOLEAN]
    \cup
    [entry : {"cli"}, input : {InputDir}, inputPaths : {<<>>},
     separator : {"pagebreak"}, sortFn : {"unset"}, enableMermaid : BOOLEAN]

\* The destination before the call: nothing there, or a directory holding an
\* earlier output.
Dests ==
    {NoDest,
     [dir |-> TRUE, file |-> TRUE, content |-> [type |-> "Buffer", of |-> <<"o">>]]}

\* What the call finds on disk: at inputDir nothing, a file, or a directory
\* with any listing.
Disks(a) ==
    [inKind : IF a.entry = "convertDirectory" THEN {"missing", "file"} ELSE {"missing"},
     listing : {<<>>}, dest : Dests]
    \cup
    [inKind : IF a.entry \in {"convertDirectory", "cli"} THEN {"dir"} ELSE {},
     listing : Listings, dest : Dests]

\* One call of an entry point on a fresh converter.
InitConv ==
    /\ InitWith({}, Texts)
    /\ CmpOff
    /\ args \in Calls
    /\ disk \in Disks(args)
    /\ conv = [pc |-> "Idle", files |-> <<>>, sep |-> <<>>, contents |-> <<>>,
               merged |-> <<>>, processed |-> <<>>, output |-> NoOutput,
               buffer |-> NoOutput, error |-> NoError, destBefore |-> disk.dest,
               cli |-> IF args.entry = "cli" THEN "start" ELSE "none",
               printed |-> <<>>]

\* The steps of the call, of the preprocessMermaid call it makes and of the
\* renderer subprocesses.
NextConv ==
    \/ CliDirectory
    \/ ConvertFile
    \/ ConvertDirectory
    \/ ConvertFiles
    \/ NextPre
    \/ PreprocessReturn
    \/ HighlighterCreated(1)
    \/ Process
    \/ Normalize
    \/ WriteOutput

SpecConv == InitConv /\ [][NextConv]_vars

\* The set of the elements of a sequence.
Elems(seq) == {seq[i] : i \in 1..Len(seq)}

\* convertDirectory has listed, filtered and sorted a directory.
Listed ==
    /\ args.entry = "convertDirectory"
    /\ disk.inKind = "dir"
    /\ conv.pc # "Idle"

\* The entry point has called convert on the merged text.
Merged ==
    \/ conv.pc \in {"Preprocessing", "Rendering", "Normalizing", "Writing", "Done"}
    \/ conv.pc = "Failed" /\ conv.error.phase # "Idle"

\* One fixed enumeration of a set of names.
Canonical(S) == CHOOSE l \in Perms(S) : TRUE

\* C13: with the default comparator the merge order of convertDirectory is a
\* function of the set of file names alone: it is the order obtained from one
\* fixed enumeration of that set, whatever order the listing enumerates the
\* names in, names the comparator treats as equal included.
C13_OrderIndependentOfListing ==
    Listed /\ args.sortFn = "unset" =>
        conv.files = Sort(MdFilter(Canonical(Elems(disk.listing))), "unset")

\* The comparator convertDirectory is to sort with.
Comparator(a, b) ==
    IF args.sortFn = "unset" THEN NaturalSort(a, b) ELSE ByLength(a, b)

\* The position of a name in a sequence of distinct names.
Pos(seq, name) == CHOOSE i \in 1..Len(seq) : seq[i] = name

\* C14: the files convertDirectory merges are exactly the entries of the
\* listing whose name ends in ".md", each once, in the stable order of the
\* caller's comparator when one is given (the default comparator has no part
\* in it) and of the natural comparator otherwise; the bodies merged are the
\* bodies of these files in this order.
C14_MdEntriesSortedOnce ==
    Listed =>
        /\ \A n \in DirNames :
              Cardinality({i \in 1..Len(conv.files) : conv.files[i] = n})
                  = IF /\ n \in Elems(disk.listing)
                       /\ Len(n) >= 3
                       /\ SubSeq(n, Len(n) - 2, Len(n)) = <<".", "m", "d">>
                    THEN 1 ELSE 0
        /\ \A i, j \in 1..Len(conv.files) :
              i < j =>
                  /\ Comparator(conv.files[i], conv.files[j]) <= 0
                  /\ Comparator(conv.files[i], conv.files[j]) = 0 =>
                        Pos(disk.listing, conv.files[i]) < Pos(disk.listing, conv.files[j])
        /\ Merged => conv.contents = [k \in 1..Len(conv.files) |-> BodyOf(conv.files[k])]

\* C14 witness: a directory with an entry that is not a ".md" name was merged
\* under the caller's comparator, with two names that comparator leaves equal
\* and the default comparator does not.
C14_Witness ==
    /\ Listed
    /\ Merged
    /\ args.sortFn = "byLength"
    /\ Ntxt \in Elems(disk.listing)
    /\ conv.files = <<F2md, F10md, F02md>>

\* The offset in the merged text at which body k starts.
RECURSIVE StartOf(_)
StartOf(k) ==
    IF k = 1 THEN 0
    ELSE StartOf(k - 1) + Len(conv.contents[k - 1]) + Len(conv.sep)

\* C15: the merged text is body 1, separator, body 2, ..., body n: every body
\* at its place, a separator between two bodies and nowhere else (n - 1 of
\* them, none leading or trailing); a single body is merged unchanged.
C15_JoinInterleaves ==
    Merged /\ args.entry \in {"convertDirectory", "convertFiles"} =>
        LET n == Len(conv.contents)
        IN /\ n >= 1
           /\ Len(conv.merged) = StartOf(n) + Len(conv.contents[n])
           /\ \A k \in 1..n :
                 Substring(conv.merged, StartOf(k), StartOf(k) + Len(conv.contents[k]))
                     = conv.contents[k]
           /\ \A k \in 1..(n - 1) :
                 Substring(conv.merged, StartOf(k) + Len(conv.contents[k]), StartOf(k + 1))
                     = conv.sep
           /\ n = 1 => conv.merged = conv.contents[1]

\* C15 witness: three bodies were joined with a separator that is not empty.
C15_Witness ==
    /\ Merged
    /\ Len(conv.contents) = 3
    /\ conv.sep # <<>>
    /\ conv.pc = "Done"

\* C16: the separator fragment is the page break for "pagebreak", the rule for
\* "hr", the empty string for "none" and the page break when no separator is
\* given, in convertDirectory and in convertFiles alike.
C16_SeparatorFragment ==
    Merged /\ args.entry \in {"convertDirectory", "convertFiles"} =>
        conv.sep = IF args.separator \in {"pagebreak", "unset"} THEN PageBreakMarkdown
                   ELSE IF args.separator = "hr" THEN HrMarkdown
                   ELSE <<>>

\* C16 witness: convertFiles joined two bodies with the separator "none".
C16_Witness ==
    /\ Merged
    /\ args.entry = "convertFiles"
    /\ args.separator = "none"
    /\ Len(conv.contents) = 2
    /\ conv.sep = <<>>

\* C17: convertFiles merges the bodies of the paths in the order of the
\* caller's list, a path given twice being merged twice.
C17_ListOrderKept ==
    Merged /\ args.entry = "convertFiles" =>
        conv.contents = [k \in 1..Len(args.inputPaths) |-> BodyOf(args.inputPaths[k])]

\* C17 witness: a list that is not in sorted order and holds a path twice was
\* merged.
C17_Witness ==
    /\ Merged
    /\ args.entry = "convertFiles"
    /\ args.inputPaths = <<F02md, F2md, F02md>>
    /\ conv.pc = "Done"

\* The call has thrown the error with this text, naming this path.
Threw(text, path) ==
    /\ conv.pc = "Failed"
    /\ conv.error.text = text
    /\ conv.error.path = path

\* The listing holds no entry whose name ends in ".md".
NoMdEntry ==
    \A n \in Elems(disk.listing) :
        Len(n) < 3 \/ SubSeq(n, Len(n) - 2, Len(n)) # <<".", "m", "d">>

\* C18: convertDirectory fails with the directory-not-found error when
\* nothing is at the path, with the not-a-directory error when the path is
\* not a directory and with the no-eligible-files error when the directory has
\* no entry ending in ".md"; each error names the resolved path of the
\* directory, and no such error is thrown otherwise.
C18_DirectoryErrors ==
    args.entry = "convertDirectory" /\ conv.pc # "Idle" =>
        /\ Threw("Input directory not found: ", Cwd \o InputDir)
              <=> disk.inKind = "missing"
        /\ Threw("Not a directory: ", Cwd \o InputDir)
              <=> disk.inKind = "file"
        /\ Threw("No markdown files found in: ", Cwd \o InputDir)
              <=> disk.inKind = "dir" /\ NoMdEntry

\* C18 witness: a directory that holds entries, none ending in ".md", was
\* refused.
C18_Witness ==
    /\ args.entry = "convertDirectory"
    /\ disk.listing = <<Ntxt>>
    /\ Threw("No markdown files found in: ", Cwd \o InputDir)

\* The positions of the list whose path does not exist.
MissingAt == {k \in 1..Len(args.inputPaths) : KindOf(args.inputPaths[k]) = "missing"}

\* The positions of the list whose path is not a file that can be read.
UnusableAt == {k \in 1..Len(args.inputPaths) : KindOf(args.inputPaths[k]) # "file"}

\* The least of a set of positions that is not empty.
First(S) == CHOOSE k \in S : \A j \in S : k <= j

\* C19 as stated: convertFiles([]) fails with the no-input-files error, and a
\* list that holds a path that does not exist fails with the input-not-found
\* error naming the first such path of the list.
C19_Original ==
    args.entry = "convertFiles" /\ conv.pc # "Idle" =>
        /\ args.inputPaths = <<>> => Threw("No input files provided", <<>>)
        /\ MissingAt # {} =>
              Threw("Input file not found: ", Cwd \o args.inputPaths[First(MissingAt)])

\* C19 amended: convertFiles([]) fails with the no-input-files error; a list
\* whose first path that is not a readable file does not exist fails with the
\* input-not-found error naming that path; when that first path exists but
\* cannot be read (a directory), the call fails with the read error of that
\* path, whatever follows it in the list.
C19_FirstUnusablePath ==
    args.entry = "convertFiles" /\ conv.pc # "Idle" =>
        /\ args.inputPaths = <<>> => Threw("No input files provided", <<>>)
        /\ UnusableAt # {} =>
              LET first == args.inputPaths[First(UnusableAt)]
              IN IF KindOf(first) = "missing"
                 THEN Threw("Input file not found: ", Cwd \o first)
                 ELSE /\ conv.pc = "Failed"
                      /\ conv.error.text # "Input file not found: "
                      /\ conv.error.path = Cwd \o first

\* C19 witness: a list with two different paths that do not exist, behind a
\* file, was refused with the error naming the first of them.
C19_Witness ==
    /\ args.entry = "convertFiles"
    /\ args.inputPaths = <<F2md, Hmd, Gmd>>
    /\ Threw("Input file not found: ", Cwd \o Hmd)

\* C20: as long as the call has not reached the write, and after it has
\* failed before the write (a failed precondition, a failure of the engine, a
\* result of an unexpected type), the destination is as it was before the
\* call: no output file created or changed, no destination directory created.
C20_DestinationUntouched ==
    \/ conv.pc \in {"Idle", "Preprocessing", "Rendering", "Normalizing", "Writing"}
    \/ conv.error.phase \in {"Idle", "Preprocessing", "Rendering", "Normalizing"}
    => disk.dest = conv.destBefore

\* C20 witness: the engine gave a result of an unexpected type, and the
\* destination directory, missing before the call, is still missing.
C20_Witness ==
    /\ conv.pc = "Failed"
    /\ conv.error.phase = "Normalizing"
    /\ ~conv.destBefore.dir
    /\ ~disk.dest.dir

\* The moves of a call from one phase to the next: the phases in order,
\* Preprocessing only with enableMermaid, and Failed from any phase that is
\* not final.
PhaseOrder(from, to) ==
    \/ from = to
    \/ from = "Idle" /\ to = (IF args.enableMermaid THEN "Preprocessing" ELSE "Rendering")
    \/ from = "Preprocessing" /\ to = "Rendering"
    \/ from = "Rendering" /\ to = "Normalizing"
    \/ from = "Normalizing" /\ to = "Writing"
    \/ from = "Writing" /\ to = "Done"
    \/ from \in {"Idle", "Preprocessing", "Rendering", "Normalizing", "Writing"}
          /\ to = "Failed"

\* C21: a call moves through Preprocessing (only with enableMermaid),
\* Rendering, Normalizing, Writing, Done in this order; it enters Rendering
\* only when preprocessMermaid has returned with every block processed, the
\* engine gives its result only in Rendering, the destination changes only in
\* Writing and with a buffer that was normalized, and once the call has failed
\* or is done neither its locals nor the destination change any more.
C21_PhasesInOrder ==
    [][ /\ PhaseOrder(conv.pc, conv'.pc)
        /\ conv.pc # "Rendering" /\ conv'.pc = "Rendering" /\ args.enableMermaid =>
              /\ pc[1] = "done"
              /\ Len(repl[1]) = Len(blocks[1])
              /\ conv'.processed = result[1]
        /\ conv'.output # conv.output => conv.pc = "Rendering"
        /\ disk'.dest # disk.dest =>
              /\ conv.pc = "Writing"
              /\ conv.buffer.type = "Buffer"
              /\ conv.buffer.of = conv.output.of
        /\ conv.pc \in {"Failed", "Done"} => conv' = conv /\ disk' = disk
      ]_vars

\* C21 witness: a call with enableMermaid on a text with a diagram block has
\* gone through every phase.
C21_Witness ==
    /\ args.enableMermaid
    /\ Len(blocks[1]) >= 1
    /\ conv.pc = "Done"
    /\ disk.dest.content = conv.buffer

\* ---------------------------------------------------------------- C22
\* C22: in a call for which diagram rendering is not enabled, the text is never
\* scanned for blocks, no renderer is spawned, no file name of the scratch
\* directory is computed, tested, read or written, and the text given to the
\* engine, which is the text of its result, is the merged input text.
C22_DisabledIsZeroCost ==
    ~args.enableMermaid =>
        /\ pc[1] = "off"
        /\ blocks[1] = <<>>
        /\ repl[1] = <<>>
        /\ call[1] = NoCall
        /\ child[1] = NoChild
        /\ spawns = <<>>
        /\ touched = {}
        /\ files = <<>>
        /\ conv.pc = "Rendering" => conv.processed = conv.merged
        /\ conv.output # NoOutput => conv.output.of = conv.merged

\* A call without diagram rendering has converted a text that holds a diagram
\* block.
C22_Witness ==
    /\ ~args.enableMermaid
    /\ HasDiagram(conv.merged)
    /\ conv.pc = "Done"
    /\ disk.dest.content.of = conv.merged

\* ---------------------------------------------------------------- C23
\* C23: in a call of convertDirectory or convertFiles with diagram rendering,
\* the bodies are preprocessed one by one before they are joined: every block
\* the scan recognises lies inside the span of one body of the merged text, so
\* none starts in one document and ends in the separator or in a later
\* document.
C23_NoBlockAcrossDocuments ==
    /\ args.enableMermaid
    /\ args.entry \in {"convertDirectory", "convertFiles"}
    /\ Merged
    => \A i \in 1..Len(blocks[1]) :
          \E k \in 1..Len(conv.contents) :
              /\ StartOf(k) <= blocks[1][i].startIndex
              /\ blocks[1][i].endIndex <= StartOf(k) + Len(conv.contents[k])

\* ---------------------------------------------------------------- C24
\* C24: the write of the destination is all or nothing: after a call that
\* succeeded the destination directory exists and the file holds exactly the
\* bytes of the engine, and after a call whose write failed the destination
\* path holds what it held before the call, neither a new file nor a partly
\* written one.
C24_WriteAtomic ==
    /\ conv.pc = "Done" =>
          /\ disk.dest.dir
          /\ disk.dest.file
          /\ disk.dest.content = conv.buffer
          /\ disk.dest.content.of = conv.output.of
    /\ conv.pc = "Failed" /\ conv.error.phase = "Writing" =>
          /\ disk.dest.file = conv.destBefore.file
          /\ disk.dest.content = conv.destBefore.content

\* ---------------------------------------------------------------- C25
\* A file of the scratch directory is removed by the step.
EntryRemoved == \E n \in DOMAIN files : n \notin DOMAIN files'

\* The step is a renderMermaidToPng call of caller p answered from the cache.
HitStep(p) == pc[p] = "resolve" /\ call'[p].outcome = "hit" /\ pc'[p] = "read"

\* C25: a file of the scratch directory is removed only by cleanup, which
\* removes them all; a call answered from the cache leaves every file as it
\* is; and after a cleanup the first call for a source is a miss that spawns
\* the renderer, so a call is answered from the cache only when a call for the
\* same source has missed and spawned the renderer since the last cleanup.
C25_EntriesLiveBetweenCleanups ==
    [][ /\ EntryRemoved => files' = <<>>
        /\ \A p \in Procs :
              HitStep(p) => /\ files' = files
                            /\ call'[p].afterMiss ]_vars

\* ---------------------------------------------------------------- C26
\* C26: in one preprocessMermaid call the fate of a block (its rewrite, or its
\* skip) is decided only once the renderMermaidToPng call made for that block
\* is settled and its renderer, if any, is no longer running; result is
\* rewritten only for a call that gave a path; a renderer is spawned only
\* when the call has no renderer and every earlier block is decided, so the
\* call has at most one renderer at a time; and the blocks are taken one by
\* one by ascending offset.
C26_OneRendererAtATime ==
    [][ \A p \in Procs :
           /\ repl'[p] # repl[p] =>
                 /\ Len(repl'[p]) = bi[p]
                 /\ Len(repl[p]) = bi[p] - 1
                 /\ call'[p].key = Block(p).code
                 /\ call'[p].outcome \notin {"none", "pending"}
                 /\ child'[p].st # "running"
           /\ pc[p] # "idle" /\ result'[p] # result[p] =>
                 /\ pc[p] = "read"
                 /\ call[p].outcome \in {"hit", "ok"}
                 /\ child[p] = NoChild
           /\ child'[p].st = "running" /\ child[p].st # "running" =>
                 /\ child[p] = NoChild
                 /\ Len(repl[p]) = bi[p] - 1
                 /\ \A j \in 1..(bi[p] - 1) :
                       blocks[p][j].startIndex < Block(p).startIndex
           /\ bi'[p] # bi[p] /\ pc[p] # "idle" =>
                 /\ bi'[p] = bi[p] + 1
                 /\ Len(repl'[p]) = bi[p] ]_vars

\* C26 witness: a call has gone through three blocks one after the other and
\* has spawned a renderer for two different sources.
C26_Witness ==
    /\ pc[1] = "done"
    /\ Len(blocks[1]) = 3
    /\ Len(repl[1]) = 3
    /\ \A j \in 1..3 : repl[1][j].ok
    /\ \E a, b \in DOMAIN spawns : a # b /\ a[1] = 1 /\ b[1] = 1

\* ---------------------------------------------------------------- C27
\* C27: a call is answered from the cache, or gets the path from its own
\* renderer, only if a renderer invoked for the same source has before that
\* exited with code 0 having written the image: an image file left by a
\* renderer that exited with another code, or that is still running, is
\* never served.
C27_HitOnlyAfterCleanExit ==
    \A p \in Procs :
        call[p].outcome \in {"hit", "ok"} => call[p].key \in exitedOk

\* ---------------------------------------------------------------- C28
\* C28: the default comparator is a consistent ordering of the names: the
\* result for (b, a) has the sign opposite to the result for (a, b), a name
\* compares equal to itself, and when a is not after b and b is not after c
\* then a is not after c, for every name c.
C28_ComparatorConsistent ==
    cmpPc = "done" =>
        /\ cmpOut = 0 - NaturalSort(cmpB, cmpA)
        /\ cmpA = cmpB => cmpOut = 0
        /\ \A c \in CmpNames :
              cmpOut <= 0 /\ NaturalSort(cmpB, c) <= 0 => NaturalSort(cmpA, c) <= 0

\* ---------------------------------------------------------------- C29
\* C29: in the directory mode of the command line the numbered list printed
\* before the merge names the files in the order in which convertDirectory
\* then merges them.
C29_ListOrderIsMergeOrder ==
    args.entry = "cli" /\ conv.cli = "listed" /\ conv.pc # "Idle" =>
        conv.printed = conv.files

\* ------------------------------------------------------------ highlighter
\* The number of highlighters created in one behaviour.
MaxHighlighters == 3

\* The getHighlighter calls whose createHighlighter has not resolved yet.
Creating == {p \in Procs : hl.st[p] = "creating"}

\* A convert call of caller p builds its code plugin, which calls
\* getHighlighter.
GetHighlighter(p) ==
    /\ hl.st[p] = "none"
    /\ hl.instance = 0 => hl.made + Cardinality(Creating) < MaxHighlighters
    /\ hl' = HlGet(hl, p)
    /\ UNCHANGED <<preVars, cmpA, cmpB, cmpOut, cmpPc, args, disk, conv>>

\* The convert call of caller p, which has its highlighter, returns.
ConvertReturn(p) ==
    /\ hl.st[p] = "loaded"
    /\ hl' = [hl EXCEPT !.st[p] = "none"]
    /\ UNCHANGED <<preVars, cmpA, cmpB, cmpOut, cmpPc, args, disk, conv>>

\* disposeHighlighter(), called directly or at the end of cleanup().
DisposeHighlighter ==
    /\ hl' = HlDispose(hl)
    /\ UNCHANGED <<preVars, cmpA, cmpB, cmpOut, cmpPc, args, disk, conv>>

\* No highlighter yet, no call in progress.
InitHl == InitWith({}, Texts) /\ CmpOff /\ ConvOff

NextHl ==
    \/ \E p \in Procs :
          \/ GetHighlighter(p)
          \/ HighlighterCreated(p)
          \/ ConvertReturn(p)
    \/ DisposeHighlighter

\* Convert calls of two callers and disposeHighlighter calls, in any order.
SpecHl == InitHl /\ [][NextHl]_vars

\* ---------------------------------------------------------------- C30
\* C30: whatever the order of the convert calls and the disposals, at most one
\* highlighter is created since the last disposal, every highlighter created
\* and not disposed is the one highlighterInstance holds, and while no
\* creation was started since the last disposal highlighterInstance is null.
C30_OneHighlighter ==
    /\ hl.sinceDispose <= 1
    /\ hl.live \subseteq {hl.instance}
    /\ ~hl.started => hl.instance = 0

====
